---- MODULE Spec2Model ----
(***************************************************************************)
(* Model of src/app.py, the Streamlit "Financial Data Analyzer".           *)
(*                                                                         *)
(* One run of the script is a sequence of steps: the fetch                 *)
(* (get_stock_info), the dispatch on its result, the header, the summary   *)
(* table, the price-performance metrics, the charts/table/export block and *)
(* the statistics expander.  Streamlit runs the script again whenever a    *)
(* sidebar widget changes.                                                  *)
(*                                                                         *)
(* Python values are modelled as tagged records, formatted strings as the  *)
(* structure of the text (prefix, sign, integer part, two decimals,         *)
(* suffix).  Integers beyond 32 bits are kept as two base-10^6 limbs.      *)
(***************************************************************************)
EXTENDS Integers, Sequences, FiniteSets

VARIABLES
    stock_symbol,     \* text_input(...).upper()                 (l.26-30)
    selected_period,  \* selectbox "Select Time Period:"         (l.45-49)
    chart_type,       \* selectbox "Select Chart Type:"          (l.52-56)
    analyze_button,   \* st.sidebar.button("Analyze Stock")      (l.59)
    yf,               \* what Yahoo Finance answers for the symbol and period
    fp_up,            \* direction of the binary rounding error at a decimal tie
    info,             \* first result of get_stock_info          (l.200)
    hist_data,        \* second result of get_stock_info         (l.200)
    error,            \* third result of get_stock_info          (l.200)
    pc,               \* position of the script run
    rendered,         \* widgets written to the page, in order
    company_name,     \* l.208
    summary_df,       \* l.213
    recent_data,      \* l.241
    csv_data,         \* l.244
    statistics        \* l.255-266

vars == <<stock_symbol, selected_period, chart_type, analyze_button, yf, fp_up,
          info, hist_data, error, pc, rendered, company_name, summary_df,
          recent_data, csv_data, statistics>>

----------------------------------------------------------------------------
(* Numbers.  A magnitude is hi * 10^6 + lo with 0 <= lo < 10^6.            *)

Limb == 1000 * 1000

Big(hi, lo) == [hi |-> hi, lo |-> lo]

BigZero == Big(0, 0)

BigGeq(a, b) == a.hi > b.hi \/ (a.hi = b.hi /\ a.lo >= b.lo)

BigGt(a, b) == a.hi > b.hi \/ (a.hi = b.hi /\ a.lo > b.lo)

BigAdd(a, b) ==
    Big(a.hi + b.hi + ((a.lo + b.lo) \div Limb), (a.lo + b.lo) % Limb)

BigTimes100(a) ==
    Big(a.hi * 100 + ((a.lo * 100) \div Limb), (a.lo * 100) % Limb)

Pow10[k \in 0..9] == IF k = 0 THEN 1 ELSE 10 * Pow10[k - 1]

----------------------------------------------------------------------------
(* Python values held by the info dict.                                    *)

Absent == [t |-> "absent", neg |-> FALSE, mag |-> BigZero, s |-> ""]

PyNone == [t |-> "None", neg |-> FALSE, mag |-> BigZero, s |-> ""]

NaN == [t |-> "nan", neg |-> FALSE, mag |-> BigZero, s |-> ""]

Num(neg, hi, lo) == [t |-> "num", neg |-> neg, mag |-> Big(hi, lo), s |-> ""]

Str(s) == [t |-> "str", neg |-> FALSE, mag |-> BigZero, s |-> s]

\* bool(v): None, 0 and "" are falsy; NaN and every other value are truthy.
Truthy(v) ==
    CASE v.t = "None" -> FALSE
      [] v.t = "absent" -> FALSE
      [] v.t = "nan" -> TRUE
      [] v.t = "num" -> v.mag # BigZero
      [] v.t = "str" -> v.s # ""

\* dict.get(key): None when the key is absent.
Get(d, key) == IF d[key].t = "absent" THEN PyNone ELSE d[key]

\* dict.get(key, default): the default only when the key is absent.
GetDefault(d, key, default) == IF d[key].t = "absent" THEN default ELSE d[key]

----------------------------------------------------------------------------
(* Formatted text.  kind "N/A" is the literal, "nan" is what Python prints *)
(* for a NaN, "fixed2" is [pre][-]ip.fp[suf] with two decimals, "grouped"  *)
(* is [-]ip with thousands separators.                                     *)

Text(kind, pre, neg, ip, fp, suf) ==
    [kind |-> kind, pre |-> pre, neg |-> neg, ip |-> ip, fp |-> fp, suf |-> suf]

NA == Text("N/A", "", FALSE, BigZero, 0, "")

Ok(val) == [exc |-> "", val |-> val]

Raise(exc) == [exc |-> exc, val |-> NA]

\* format(v, ".2f") inside an f-string, between the literal pre and suf.
FormatFixed2(v, pre, suf) ==
    CASE v.t = "num" -> Ok(Text("fixed2", pre, v.neg, v.mag, 0, suf))
      [] v.t = "nan" -> Ok(Text("nan", pre, FALSE, BigZero, 0, suf))
      [] v.t = "str" -> Raise("ValueError")
      [] OTHER -> Raise("TypeError")

\* format(v, ",").
FormatGrouped(v) ==
    CASE v.t = "num" -> Ok(Text("grouped", "", v.neg, v.mag, 0, ""))
      [] v.t = "nan" -> Ok(Text("nan", "", FALSE, BigZero, 0, ""))
      [] v.t = "str" -> Raise("ValueError")
      [] OTHER -> Raise("TypeError")

\* v * 100: a number is scaled, NaN stays NaN, a str is repeated (still a str).
Times100(v) ==
    CASE v.t = "num" -> [v EXCEPT !.mag = BigTimes100(v.mag)]
      [] OTHER -> v

\* The quotient mag / 10^k and the remainder, for the divisor 10^k.
Quot(mag, k) ==
    IF k >= 6 THEN mag.hi \div Pow10[k - 6]
    ELSE mag.hi * Pow10[6 - k] + (mag.lo \div Pow10[k])

Rem(mag, k) ==
    IF k >= 6 THEN Big(mag.hi % Pow10[k - 6], mag.lo)
    ELSE Big(0, mag.lo % Pow10[k])

Half(k) == IF k >= 7 THEN Big(5 * Pow10[k - 7], 0) ELSE Big(0, 5 * Pow10[k - 1])

\* To nearest; at a decimal tie q + 1/2 the double is exact only when
\* (2q+1)/200 is a multiple of 1/8 (then round-half-even), otherwise the
\* nearest double lies on one side of the tie.
Nearest(q, r, half, up) ==
    IF BigGt(r, half) THEN q + 1
    ELSE IF r # half THEN q
    ELSE IF (2 * q + 1) % 25 = 0 THEN (IF q % 2 = 1 THEN q + 1 ELSE q)
    ELSE IF up THEN q + 1 ELSE q

\* Hundredths of mag / 10^(k+2) as f"{...:.2f}" prints them.
Hundredths(mag, k, up) == Nearest(Quot(mag, k), Rem(mag, k), Half(k), up)

FixedText(h, neg, suf) == Text("fixed2", "$", neg, Big(0, h \div 100), h % 100, suf)

\* f"${num/10^e:.2f}{suf}"
Scaled(num, e, suf, up) == FixedText(Hundredths(num.mag, e - 2, up), num.neg, suf)

----------------------------------------------------------------------------
(* format_large_number (l.74-87).                                          *)

Trillion == Big(Limb, 0)

Billion == Big(1000, 0)

Million == Big(1, 0)

Thousand == Big(0, 1000)

\* The same chain with the thresholds tested on num instead of abs(num).
format_large_number_no_abs(num, up) ==
    IF num.t = "nan" \/ num.t = "None" THEN Ok(NA)
    ELSE IF num.t = "str" THEN Raise("TypeError")
    ELSE IF ~num.neg /\ BigGeq(num.mag, Trillion) THEN Ok(Scaled(num, 12, "T", up))
    ELSE IF ~num.neg /\ BigGeq(num.mag, Billion) THEN Ok(Scaled(num, 9, "B", up))
    ELSE IF ~num.neg /\ BigGeq(num.mag, Million) THEN Ok(Scaled(num, 6, "M", up))
    ELSE IF ~num.neg /\ BigGeq(num.mag, Thousand) THEN Ok(Scaled(num, 3, "K", up))
    ELSE FormatFixed2(num, "$", "")

format_large_number(num, up) ==
    IF num.t = "nan" \/ num.t = "None" THEN Ok(NA)      \* pd.isna(num) or num is None
    ELSE IF num.t = "str" THEN Raise("TypeError")       \* abs() of a str
    ELSE IF BigGeq(num.mag, Trillion) THEN Ok(Scaled(num, 12, "T", up))
    ELSE IF BigGeq(num.mag, Billion) THEN Ok(Scaled(num, 9, "B", up))
    ELSE IF BigGeq(num.mag, Million) THEN Ok(Scaled(num, 6, "M", up))
    ELSE IF BigGeq(num.mag, Thousand) THEN Ok(Scaled(num, 3, "K", up))
    ELSE FormatFixed2(num, "$", "")

----------------------------------------------------------------------------
(* create_summary_table (l.89-119).  A cell is the parts of the row's      *)
(* value: one text, or low and high joined by " - ".                       *)

Metric ==
    <<"Current Price", "Previous Close", "Day's Range", "52 Week Range",
      "Volume", "Average Volume", "Market Cap", "P/E Ratio", "EPS",
      "Dividend Yield", "Beta">>

Cell(r) == [exc |-> r.exc, parts |-> <<r.val>>]

\* The same cell with the test "is not None" in place of truthiness.
FieldFixed2_present(d, key, pre) ==
    IF Get(d, key).t # "None"
    THEN Cell(FormatFixed2(GetDefault(d, key, Str("N/A")), pre, ""))
    ELSE Cell(Ok(NA))

\* f"{pre}{info.get(key, 'N/A'):.2f}" if info.get(key) else "N/A"
FieldFixed2(d, key, pre) ==
    IF Truthy(Get(d, key))
    THEN Cell(FormatFixed2(GetDefault(d, key, Str("N/A")), pre, ""))
    ELSE Cell(Ok(NA))

\* f"{info.get(key, 'N/A'):,}" if info.get(key) else "N/A"
FieldGrouped(d, key) ==
    IF Truthy(Get(d, key))
    THEN Cell(FormatGrouped(GetDefault(d, key, Str("N/A"))))
    ELSE Cell(Ok(NA))

\* The two halves of a range; the low one is formatted first.
JoinRange(low, high) ==
    IF low.exc # "" THEN [exc |-> low.exc, parts |-> <<NA>>]
    ELSE IF high.exc # "" THEN [exc |-> high.exc, parts |-> <<NA>>]
    ELSE [exc |-> "", parts |-> <<low.val, high.val>>]

\* f"${low:.2f} - ${high:.2f}" if info.get(lowKey) and info.get(highKey) else "N/A"
FieldRange(d, lowKey, highKey) ==
    IF Truthy(Get(d, lowKey)) /\ Truthy(Get(d, highKey))
    THEN JoinRange(FormatFixed2(GetDefault(d, lowKey, Str("N/A")), "$", ""),
                   FormatFixed2(GetDefault(d, highKey, Str("N/A")), "$", ""))
    ELSE Cell(Ok(NA))

\* f"{info.get('dividendYield', 0)*100:.2f}%" if info.get('dividendYield') else "N/A"
FieldPercent(d, key) ==
    IF Truthy(Get(d, key))
    THEN Cell(FormatFixed2(Times100(GetDefault(d, key, Num(FALSE, 0, 0))), "", "%"))
    ELSE Cell(Ok(NA))

SummaryCells(d, up) ==
    <<FieldFixed2(d, "currentPrice", "$"),
      FieldFixed2(d, "previousClose", "$"),
      FieldRange(d, "dayLow", "dayHigh"),
      FieldRange(d, "fiftyTwoWeekLow", "fiftyTwoWeekHigh"),
      FieldGrouped(d, "volume"),
      FieldGrouped(d, "averageVolume"),
      Cell(format_large_number(Get(d, "marketCap"), up)),
      FieldFixed2(d, "trailingPE", ""),
      FieldFixed2(d, "trailingEps", "$"),
      FieldPercent(d, "dividendYield"),
      FieldFixed2(d, "beta", "")>>

\* The list is built left to right: the first element that raises ends the
\* call; otherwise the DataFrame has one row per label.
TableOf(cells) ==
    LET failed == {i \in DOMAIN cells : cells[i].exc # ""}
        first == CHOOSE i \in failed : \A j \in failed : i <= j
    IN  IF failed = {}
        THEN [exc |-> "",
              rows |-> [i \in DOMAIN cells |->
                          [Metric |-> Metric[i], Value |-> cells[i].parts]]]
        ELSE [exc |-> cells[first].exc, rows |-> <<>>]

create_summary_table(d, up) == TableOf(SummaryCells(d, up))

----------------------------------------------------------------------------
(* The historical DataFrame: an index of dates and five columns.  Prices   *)
(* are in thousandths of a dollar, so that round(2) has something to do.   *)

DataFrame(index, open, high, low, close, volume) ==
    [index |-> index, Open |-> open, High |-> high, Low |-> low,
     Close |-> close, Volume |-> volume]

Rows(df) == Len(df.index)

\* df.empty
Empty(df) == Rows(df) = 0

\* The last n elements of a column.
TailSeq(col, n) ==
    IF Len(col) <= n THEN col ELSE SubSeq(col, Len(col) - n + 1, Len(col))

\* df.tail(n)
tail(df, n) ==
    DataFrame(TailSeq(df.index, n), TailSeq(df.Open, n), TailSeq(df.High, n),
              TailSeq(df.Low, n), TailSeq(df.Close, n), TailSeq(df.Volume, n))

\* round(p / 1000, 2) in hundredths: to nearest; a tie ...5 is exact in binary
\* only for multiples of 1/8 (then half-even), else the double lies on one side.
RoundPrice(p, up) ==
    LET q == p \div 10
        r == p % 10
    IN  IF r > 5 THEN q + 1
        ELSE IF r < 5 THEN q
        ELSE IF p % 125 = 0 THEN (IF q % 2 = 1 THEN q + 1 ELSE q)
        ELSE IF up THEN q + 1 ELSE q

RoundCol(col, up) == [i \in DOMAIN col |-> RoundPrice(col[i], up)]

\* df.round(2): the prices become hundredths, the integer Volume is unchanged.
Round2(df, up) ==
    DataFrame(df.index, RoundCol(df.Open, up), RoundCol(df.High, up),
              RoundCol(df.Low, up), RoundCol(df.Close, up), df.Volume)

----------------------------------------------------------------------------
(* Floating-point results of the statistics: a finite rational n/d, +inf   *)
(* or NaN.  Prices are non-negative, so -inf does not arise.               *)

RECURSIVE GCD(_, _)
GCD(a, b) == IF b = 0 THEN a ELSE GCD(b, a % b)

Abs(x) == IF x < 0 THEN -x ELSE x

Reduce(n, d, g) == [c |-> "fin", n |-> n \div g, d |-> d \div g]

Fin(n, d) == Reduce(n, d, GCD(Abs(n), d))

FNaN == [c |-> "nan", n |-> 0, d |-> 1]

FInf == [c |-> "inf", n |-> 0, d |-> 1]

AddOver(x, y, g) == Fin(x.n * (y.d \div g) + y.n * (x.d \div g), (x.d \div g) * y.d)

RatAdd(x, y) == AddOver(x, y, GCD(x.d, y.d))

RatSub(x, y) == RatAdd(x, Fin(-y.n, y.d))

RatMul(x, y) == Fin(x.n * y.n, x.d * y.d)

RatDivInt(x, k) == Fin(x.n, x.d * k)

\* cur / prev - 1 on float64: x/0 is inf, 0/0 is NaN, no exception.
Change(prev, cur) ==
    IF prev = 0 THEN (IF cur = 0 THEN FNaN ELSE FInf)
    ELSE Fin(cur - prev, prev)

\* Series.pct_change(): NaN for the first row.
pct_change(col) ==
    [i \in DOMAIN col |-> IF i = 1 THEN FNaN ELSE Change(col[i - 1], col[i])]

RECURSIVE SumFin(_)
SumFin(xs) == IF xs = <<>> THEN Fin(0, 1) ELSE RatAdd(Head(xs), SumFin(Tail(xs)))

\* skipna: the non-NaN elements, in order.
DropNaN(xs) == SelectSeq(xs, LAMBDA x : x.c # "nan")

HasInf(xs) == \E i \in DOMAIN xs : xs[i].c = "inf"

MeanOf(ys) ==
    IF ys = <<>> THEN FNaN
    ELSE IF HasInf(ys) THEN FInf
    ELSE RatDivInt(SumFin(ys), Len(ys))

\* Series.mean(): NaN for no observation; inf as soon as one element is inf.
Mean(xs) == MeanOf(DropNaN(xs))

Square(x) == RatMul(x, x)

VarianceOf(ys, m) ==
    IF Len(ys) < 2 THEN FNaN
    ELSE IF HasInf(ys) THEN FNaN
    ELSE RatDivInt(SumFin([i \in DOMAIN ys |-> Square(RatSub(ys[i], m))]), Len(ys) - 1)

\* The sample variance (ddof = 1) Series.std() takes the root of: NaN for fewer
\* than two observations, NaN when an element is inf (inf - inf).
Variance(xs) == VarianceOf(DropNaN(xs), Mean(xs))

MaxOf(col) == CHOOSE x \in {col[i] : i \in DOMAIN col} : \A i \in DOMAIN col : col[i] <= x

MinOf(col) == CHOOSE x \in {col[i] : i \in DOMAIN col} : \A i \in DOMAIN col : x <= col[i]

RECURSIVE SumInt(_)
SumInt(xs) == IF xs = <<>> THEN 0 ELSE Head(xs) + SumInt(Tail(xs))

\* What an f-string prints for the value: a number, "nan" or "inf".  The code
\* has no other text for a statistic.
Printed(x) ==
    [text |-> IF x.c = "fin" THEN "number" ELSE x.c, value |-> x]

\* x * 100
Percent(x) == IF x.c = "fin" THEN RatMul(x, Fin(100, 1)) ELSE x

\* The six metrics of the "Additional Statistics" expander (l.252-266).
\* volatility = std * sqrt(252) * 100 is irrational in general: its value is
\* carried as the sample variance of the daily returns it is the root of.
Statistics(df) ==
    [period_high |-> Printed(Fin(MaxOf(df.High), 1000)),
     period_low |-> Printed(Fin(MinOf(df.Low), 1000)),
     avg_volume |-> Printed(Fin(SumInt(df.Volume), Rows(df))),
     volatility |-> Printed(Variance(pct_change(df.Close))),
     total_return |-> Printed(Percent(Change(df.Close[1], df.Close[Rows(df)]))),
     avg_daily_return |-> Printed(Percent(Mean(pct_change(df.Close))))]

----------------------------------------------------------------------------
(* prepare_csv_data (l.180-194).  The document is the sequence of its      *)
(* lines; a line is a tag and its cells.  datetime.now() is the one cell   *)
(* "<now>".                                                                *)

\* hist_data.tail(10), l.241
TailRows == 10

Line(tag, cells) == [tag |-> tag, cells |-> cells]

\* DataFrame.to_csv of the summary, index = False: the header, then the rows.
SummaryCsv(rows) ==
    <<Line("summary_header", <<"Metric", "Value">>)>> \o
    [i \in DOMAIN rows |-> Line("summary_row", <<rows[i].Metric, rows[i].Value>>)]

\* DataFrame.to_csv of the history: the header with the index name, then one
\* line per row, in index order.
HistoryCsv(df, index_name) ==
    <<Line("history_header", <<index_name, "Open", "High", "Low", "Close", "Volume">>)>> \o
    [i \in 1..Rows(df) |->
        Line("history_row",
             <<df.index[i], df.Open[i], df.High[i], df.Low[i], df.Close[i],
               df.Volume[i]>>)]

\* The buffer after the writes of l.186-193.
Document(summary, hist_df, symbol, period) ==
    IF summary.exc # "" THEN [exc |-> summary.exc, lines |-> <<>>]
    ELSE [exc |-> "",
          lines |->
            <<Line("text", <<"Stock Symbol: ", symbol>>),
              Line("text", <<"Analysis Date: ", "<now>">>),
              Line("text", <<"Time Period: ", period>>),
              Line("blank", <<>>),
              Line("text", <<"SUMMARY METRICS">>)>>
            \o SummaryCsv(summary.rows)
            \o <<Line("blank", <<>>), Line("blank", <<>>),
                 Line("text", <<"HISTORICAL DATA">>)>>
            \o HistoryCsv(hist_df, "Date")]

\* The export written from the rows of the on-page table, tail(10).
prepare_csv_data_recent(d, df, symbol, period, up) ==
    Document(create_summary_table(d, up), Round2(tail(df, TailRows), up), symbol, period)

\* l.182-185: the summary table, and the rounded copy of the history.
prepare_csv_data(d, df, symbol, period, up) ==
    Document(create_summary_table(d, up), Round2(df, up), symbol, period)

----------------------------------------------------------------------------
(* The sidebar (l.26-59) and get_stock_info (l.61-72).                     *)

PeriodLabels ==
    <<"1 Day", "1 Week", "1 Month", "3 Months", "6 Months", "1 Year",
      "2 Years", "5 Years", "Max">>

time_periods ==
    [label \in {PeriodLabels[i] : i \in DOMAIN PeriodLabels} |->
        CASE label = "1 Day" -> "1d"
          [] label = "1 Week" -> "1wk"
          [] label = "1 Month" -> "1mo"
          [] label = "3 Months" -> "3mo"
          [] label = "6 Months" -> "6mo"
          [] label = "1 Year" -> "1y"
          [] label = "2 Years" -> "2y"
          [] label = "5 Years" -> "5y"
          [] label = "Max" -> "max"]

ChartTypes == <<"Line Chart", "Candlestick Chart">>

\* What the Yahoo Finance client does for the symbol and the period code:
\* it raises, or it gives the info dict and the history.
Answer(raises, d, df) == [raises |-> raises, info |-> d, history |-> df]

NoHistoryMessage == "No historical data found for this symbol"

\* The fetch without the hist_data.empty test of l.68-69.
get_stock_info_unchecked(symbol, period, world) ==
    IF world.raises \/ period \notin DOMAIN time_periods
    THEN [info |-> PyNone, hist_data |-> PyNone,
          error |-> Str("Error fetching data: <e>")]
    ELSE [info |-> world.info, hist_data |-> world.history, error |-> PyNone]

\* The try body ends at the first exception (the lookup of the period code
\* included); an empty history is returned as an error message.
get_stock_info(symbol, period, world) ==
    IF world.raises \/ period \notin DOMAIN time_periods
    THEN [info |-> PyNone, hist_data |-> PyNone,
          error |-> Str("Error fetching data: <e>")]
    ELSE IF Empty(world.history)
    THEN [info |-> PyNone, hist_data |-> PyNone, error |-> Str(NoHistoryMessage)]
    ELSE [info |-> world.info, hist_data |-> world.history, error |-> PyNone]

----------------------------------------------------------------------------
(* The inputs of a run.                                                    *)

MaxVaried == 1      \* fields of an info dict that differ from its background
MaxShort == 3       \* rows of a history whose closes are drawn freely
MaxRows == 12       \* rows of the longest history

NumericFields ==
    {"currentPrice", "previousClose", "dayLow", "dayHigh", "fiftyTwoWeekLow",
     "fiftyTwoWeekHigh", "volume", "averageVolume", "marketCap", "trailingPE",
     "trailingEps", "dividendYield", "beta"}

NameFields == {"shortName", "longName"}

Fields == NumericFields \cup NameFields

Magnitudes ==
    {Big(0, 150), Big(0, 999), Big(0, 1000), Big(0, 1005), Big(0, 999999),
     Big(1, 0), Big(999, 999999), Big(1000, 0), Big(999999, 999999),
     Big(Limb, 0), Big(2345678, 900000)}

Numbers == {[t |-> "num", neg |-> n, mag |-> m, s |-> ""] : n \in BOOLEAN, m \in Magnitudes}

Values ==
    {Absent, PyNone, NaN, Num(FALSE, 0, 0), Str(""), Str("Infinity")} \cup Numbers

\* A name is absent, null or a string.
NameValues == {Absent, PyNone, Str(""), Str("Infinity")}

ValuesFor(key) == IF key \in NameFields THEN NameValues ELSE Values

DefaultValue(key) ==
    CASE key = "shortName" -> Str("Apple")
      [] key = "longName" -> Str("Apple Inc.")
      [] OTHER -> Num(FALSE, 0, 150)

DefaultInfo == [key \in Fields |-> DefaultValue(key)]

\* A background (every key absent, or every key at its default) with the
\* fields named by a short tuple given one value.
InfoRecords ==
    {[key \in Fields |->
        IF \E i \in DOMAIN S : S[i] = key THEN v
        ELSE IF full THEN DefaultValue(key) ELSE Absent] :
     <<S, v>> \in {p \in [1..MaxVaried -> Fields] \X Values :
                     \A i \in DOMAIN p[1] : p[2] \in ValuesFor(p[1][i])},
     full \in BOOLEAN}

\* A frame with the given closes: ascending dates, High >= Close >= Low >= 0.
FrameOf(closes) ==
    DataFrame([i \in DOMAIN closes |-> i],
              closes,
              [i \in DOMAIN closes |-> closes[i] + 5 * i],
              [i \in DOMAIN closes |-> IF closes[i] >= 4 THEN closes[i] - 4 ELSE 0],
              closes,
              [i \in DOMAIN closes |-> 100 * i])

CloseValues == {0, 1000, 2000}

LongStarts == {1000, 1500}

ShortFrames ==
    {FrameOf(c) : c \in UNION {[1..n -> CloseValues] : n \in 0..MaxShort}}

LongFrames ==
    {FrameOf([i \in 1..n |-> IF i % 2 = 1 THEN a ELSE 2 * a]) :
     n \in (MaxShort + 1)..MaxRows, a \in LongStarts}

Frames == ShortFrames \cup LongFrames

DefaultFrame == FrameOf(<<1000, 1100, 1210>>)

Symbols == {"", "AAPL"}

PeriodSet == {PeriodLabels[i] : i \in DOMAIN PeriodLabels}

ChartSet == {ChartTypes[i] : i \in DOMAIN ChartTypes}

\* index=2 of the period options, index=0 of the chart options (l.48, l.55)
DefaultPeriod == PeriodLabels[3]

Unset ==
    /\ info = PyNone
    /\ hist_data = PyNone
    /\ error = PyNone
    /\ rendered = <<>>
    /\ company_name = Absent
    /\ summary_df = <<>>
    /\ recent_data = PyNone
    /\ csv_data = <<>>
    /\ statistics = PyNone

Init ==
    /\ pc = "start"
    /\ Unset
    /\ chart_type \in ChartSet
    /\ \/ /\ stock_symbol = "AAPL"
          /\ selected_period = DefaultPeriod
          /\ analyze_button = FALSE
          /\ fp_up \in BOOLEAN
          /\ yf \in {Answer(FALSE, d, DefaultFrame) : d \in InfoRecords}
       \/ /\ stock_symbol = "AAPL"
          /\ selected_period = DefaultPeriod
          /\ analyze_button = FALSE
          /\ fp_up \in BOOLEAN
          /\ yf \in {Answer(FALSE, DefaultInfo, df) : df \in Frames}
       \/ /\ stock_symbol \in Symbols
          /\ selected_period \in PeriodSet
          /\ analyze_button \in BOOLEAN
          /\ fp_up = FALSE
          /\ yf \in {Answer(r, DefaultInfo, DefaultFrame) : r \in BOOLEAN}

----------------------------------------------------------------------------
(* The script, top to bottom (l.196-268).                                  *)

Inputs == <<stock_symbol, selected_period, chart_type, analyze_button, yf, fp_up>>

Fetched == <<info, hist_data, error>>

Outputs == <<company_name, summary_df, recent_data, csv_data, statistics>>

CheckSymbolHint == "Please check the stock symbol and try again."

ValidTickerHint == "Please enter a valid stock ticker symbol."

EnterSymbolHint == "Please enter a stock symbol in the sidebar to begin analysis."


\* l.197 false: neither the button nor a symbol; only title and footer show.
Idle ==
    /\ pc = "start"
    /\ ~(analyze_button \/ stock_symbol # "")
    /\ pc' = "done"
    /\ UNCHANGED <<Inputs, Fetched, Outputs, rendered>>

\* l.267-268: the button without a symbol.
PromptForSymbol ==
    /\ pc = "start"
    /\ analyze_button \/ stock_symbol # ""
    /\ stock_symbol = ""
    /\ rendered' = Append(rendered, EnterSymbolHint)
    /\ pc' = "done"
    /\ UNCHANGED <<Inputs, Fetched, Outputs>>

FetchStep(r) ==
    /\ info' = r.info
    /\ hist_data' = r.hist_data
    /\ error' = r.error

\* l.199-200
Fetch ==
    /\ pc = "start"
    /\ analyze_button \/ stock_symbol # ""
    /\ stock_symbol # ""
    /\ FetchStep(get_stock_info(stock_symbol, selected_period, yf))
    /\ pc' = "fetched"
    /\ UNCHANGED <<Inputs, Outputs, rendered>>

\* l.201-206: the two messages shown when the fetch gave no data, none
\* when it gave data.
FailureMessages(err, d, df, symbol) ==
    IF Truthy(err)
    THEN <<err.s, CheckSymbolHint>>
    ELSE IF d = PyNone \/ df = PyNone
    THEN <<"No data found for symbol: <symbol>", ValidTickerHint>>
    ELSE <<>>

ReportFailure ==
    /\ pc = "fetched"
    /\ FailureMessages(error, info, hist_data, stock_symbol) # <<>>
    /\ rendered' = rendered \o FailureMessages(error, info, hist_data, stock_symbol)
    /\ pc' = "done"
    /\ UNCHANGED <<Inputs, Fetched, Outputs>>

\* l.208: dict.get falls back only when the key is absent.
CompanyName(d, symbol) ==
    GetDefault(d, "shortName", GetDefault(d, "longName", Str(symbol)))

\* l.208-209
RenderHeader ==
    /\ pc = "fetched"
    /\ FailureMessages(error, info, hist_data, stock_symbol) = <<>>
    /\ company_name' = CompanyName(info, stock_symbol)
    /\ rendered' = Append(rendered, "header")
    /\ pc' = "summary"
    /\ UNCHANGED <<Inputs, Fetched, summary_df, recent_data, csv_data, statistics>>

SummaryStep(r) ==
    IF r.exc # ""
    THEN /\ pc' = "raised"
         /\ rendered' = Append(rendered, r.exc)
         /\ UNCHANGED summary_df
    ELSE /\ pc' = "performance"
         /\ summary_df' = r.rows
         /\ rendered' = Append(rendered, "summary_table")

\* l.211-214: an exception of create_summary_table ends the run.
RenderSummary ==
    /\ pc = "summary"
    /\ SummaryStep(create_summary_table(info, fp_up))
    /\ UNCHANGED <<Inputs, Fetched, company_name, recent_data, csv_data, statistics>>

MetricsOf(priced, typed, capped, cap, voluminous, vol) ==
    IF priced /\ ~typed THEN [exc |-> "TypeError", shown |-> <<>>]
    ELSE IF cap.exc # "" THEN [exc |-> cap.exc, shown |-> <<>>]
    ELSE IF vol.exc # "" THEN [exc |-> vol.exc, shown |-> <<>>]
    ELSE [exc |-> "",
          shown |-> (IF priced THEN <<"metric Current Price">> ELSE <<>>)
                    \o (IF capped THEN <<"metric Market Cap">> ELSE <<>>)
                    \o (IF voluminous THEN <<"metric Volume">> ELSE <<>>)]

Priced(d) ==
    /\ Truthy(GetDefault(d, "currentPrice", Num(FALSE, 0, 0)))
    /\ Truthy(GetDefault(d, "previousClose", Num(FALSE, 0, 0)))

\* The subtraction and division of l.220-221 need two numbers.
Arithmetic(d) == d["currentPrice"].t # "str" /\ d["previousClose"].t # "str"

\* l.215-230: the names of the metrics shown, or the exception that ends the
\* run.
PerformanceMetrics(d, up) ==
    MetricsOf(Priced(d), Arithmetic(d),
              Truthy(Get(d, "marketCap")),
              IF Truthy(Get(d, "marketCap"))
              THEN format_large_number(Get(d, "marketCap"), up) ELSE Ok(NA),
              Truthy(Get(d, "volume")),
              IF Truthy(Get(d, "volume"))
              THEN FormatGrouped(Get(d, "volume")) ELSE Ok(NA))

PerformanceStep(r) ==
    IF r.exc # ""
    THEN /\ pc' = "raised"
         /\ rendered' = Append(rendered, r.exc)
    ELSE /\ pc' = "charts"
         /\ rendered' = rendered \o r.shown

RenderPerformance ==
    /\ pc = "performance"
    /\ PerformanceStep(PerformanceMetrics(info, fp_up))
    /\ UNCHANGED <<Inputs, Fetched, Outputs>>

\* l.231-251: what the chart block writes to the page.  The line branch only
\* builds its figure; the else branch holds every st.* call of the block.
ChartBlock(chart) ==
    IF chart = "Line Chart"
    THEN <<>>
    ELSE <<"price_chart", "volume_chart", "historical_table", "download_button">>

Shows(block, widget) == \E i \in DOMAIN block : block[i] = widget

\* l.236-251 when the block holds them: the charts, the table of the last ten
\* rows and the download button with the export.
ChartStep(block, r) ==
    IF Shows(block, "download_button")
    THEN /\ recent_data' = Round2(tail(hist_data, TailRows), fp_up)
         /\ IF r.exc # ""
            THEN /\ pc' = "raised"
                 /\ rendered' = rendered \o SubSeq(block, 1, 3) \o <<r.exc>>
                 /\ UNCHANGED csv_data
            ELSE /\ pc' = "statistics"
                 /\ rendered' = rendered \o block
                 /\ csv_data' = r.lines
    ELSE /\ pc' = "statistics"
         /\ rendered' = rendered \o block
         /\ UNCHANGED <<recent_data, csv_data>>

RenderCharts ==
    /\ pc = "charts"
    /\ ChartStep(ChartBlock(chart_type),
                 prepare_csv_data(info, hist_data, stock_symbol, selected_period, fp_up))
    /\ UNCHANGED <<Inputs, Fetched, company_name, summary_df, statistics>>

\* l.252-266
RenderStatistics ==
    /\ pc = "statistics"
    /\ statistics' = Statistics(hist_data)
    /\ rendered' = Append(rendered, "statistics")
    /\ pc' = "done"
    /\ UNCHANGED <<Inputs, Fetched, company_name, summary_df, recent_data, csv_data>>

\* Streamlit runs the script again when a widget changes: here the other
\* chart type is selected, and the button reads False again.  (A run started
\* by the button, a new symbol or a new period is a run from another initial
\* state.)
Rerun ==
    /\ pc \in {"done", "raised"}
    /\ chart_type' \in ChartSet \ {chart_type}
    /\ analyze_button' = FALSE
    /\ pc' = "start"
    /\ info' = PyNone
    /\ hist_data' = PyNone
    /\ error' = PyNone
    /\ rendered' = <<>>
    /\ company_name' = Absent
    /\ summary_df' = <<>>
    /\ recent_data' = PyNone
    /\ csv_data' = <<>>
    /\ statistics' = PyNone
    /\ UNCHANGED <<stock_symbol, selected_period, yf, fp_up>>

Next ==
    \/ Idle
    \/ PromptForSymbol
    \/ Fetch
    \/ ReportFailure
    \/ RenderHeader
    \/ RenderSummary
    \/ RenderPerformance
    \/ RenderCharts
    \/ RenderStatistics
    \/ Rerun

Spec == Init /\ [][Next]_vars

----------------------------------------------------------------------------
(* Properties.                                                             *)

FetchSucceeded ==
    /\ error = PyNone
    /\ info # PyNone
    /\ hist_data # PyNone

\* The rows of the summary with one source field, and that field.
SingleRows == {1, 2, 5, 6, 7, 8, 9, 10, 11}

RowKey(i) ==
    CASE i = 1 -> "currentPrice"
      [] i = 2 -> "previousClose"
      [] i = 5 -> "volume"
      [] i = 6 -> "averageVolume"
      [] i = 7 -> "marketCap"
      [] i = 8 -> "trailingPE"
      [] i = 9 -> "trailingEps"
      [] i = 10 -> "dividendYield"
      [] i = 11 -> "beta"

RangeRows == {3, 4}

LowKey(i) == IF i = 3 THEN "dayLow" ELSE "fiftyTwoWeekLow"

HighKey(i) == IF i = 3 THEN "dayHigh" ELSE "fiftyTwoWeekHigh"

SummaryShown == summary_df # <<>>

\* C1: whenever the fetch succeeded and the run has finished, the volume
\* chart, the historical-data table and the download button are on the page,
\* for both chart types.
C1_ChartsTableExportAlways ==
    (pc = "done" /\ FetchSucceeded) =>
        /\ Shows(rendered, "volume_chart")
        /\ Shows(rendered, "historical_table")
        /\ Shows(rendered, "download_button")

\* The remediation hint the page shows when the fetch raised.
HintOfFetchException ==
    FailureMessages(get_stock_info("AAPL", DefaultPeriod,
                                   Answer(TRUE, DefaultInfo, DefaultFrame)).error,
                    PyNone, PyNone, "AAPL")[2]

\* C2: when the history came back empty (no exception), the hint shown is not
\* the hint shown for a fetch exception.
C2_EmptyHistoryHasItsOwnHint ==
    (pc = "done" /\ error = Str(NoHistoryMessage)) =>
        rendered[Len(rendered)] # HintOfFetchException

PipelineReached ==
    \/ pc \in {"summary", "performance", "charts", "statistics", "raised"}
    \/ summary_df # <<>>
    \/ csv_data # <<>>
    \/ recent_data # PyNone
    \/ statistics # PyNone

\* C3: the summary, the charts, the export and the statistics are reached only
\* with error = None and a non-empty history, and get_stock_info returns
\* either (info, non-empty history, None) or (None, None, message).
C3_PipelineOnlyOnNonEmptyHistory ==
    /\ PipelineReached =>
          /\ FetchSucceeded
          /\ ~Empty(hist_data)
    /\ pc = "fetched" =>
          \/ /\ FetchSucceeded
             /\ ~Empty(hist_data)
          \/ /\ info = PyNone
             /\ hist_data = PyNone
             /\ error.t = "str"
             /\ error.s # ""

C3_Witness ==
    /\ pc = "done"
    /\ statistics # PyNone
    /\ csv_data # <<>>
    /\ summary_df # <<>>

\* C4: once create_summary_table has been called, it has raised nothing and
\* its table has the 11 rows in the fixed label order, whatever the info.
C4_SummaryNeverRaises ==
    (pc \in {"performance", "raised"}) =>
        /\ pc # "raised"
        /\ Len(summary_df) = 11
        /\ \A i \in 1..11 : summary_df[i].Metric = Metric[i]

\* C5 (as stated): every row whose source value is missing, null or falsy
\* reads "N/A", Market Cap included; a range row reads "N/A" unless both its
\* fields are there.
C5_FalsyIsNA_AllRows ==
    SummaryShown =>
        /\ \A i \in SingleRows :
              ~Truthy(Get(info, RowKey(i))) => summary_df[i].Value = <<NA>>
        /\ \A i \in RangeRows :
              (~Truthy(Get(info, LowKey(i))) \/ ~Truthy(Get(info, HighKey(i))))
                  => summary_df[i].Value = <<NA>>

\* C5 (amended): the ten rows other than Market Cap read "N/A" when the source
\* value is missing, null or falsy (a range row: when either field is);
\* Market Cap reads "N/A" when its source is missing or null, and "$0.00"
\* when it is the number 0.
C5_FalsyIsNA_ExceptMarketCapZero ==
    SummaryShown =>
        /\ \A i \in SingleRows \ {7} :
              ~Truthy(Get(info, RowKey(i))) => summary_df[i].Value = <<NA>>
        /\ \A i \in RangeRows :
              (~Truthy(Get(info, LowKey(i))) \/ ~Truthy(Get(info, HighKey(i))))
                  => summary_df[i].Value = <<NA>>
        /\ Get(info, "marketCap") = PyNone => summary_df[7].Value = <<NA>>
        /\ Get(info, "marketCap") = Num(FALSE, 0, 0) =>
              summary_df[7].Value = <<Text("fixed2", "$", FALSE, BigZero, 0, "")>>

C5_Witness ==
    /\ SummaryShown
    /\ info["marketCap"] = Num(FALSE, 0, 0)
    /\ info["currentPrice"] = Absent
    /\ summary_df[1].Value = <<NA>>
    /\ summary_df[7].Value = <<Text("fixed2", "$", FALSE, BigZero, 0, "")>>

\* C6: in every row a source value of None reads "N/A" and a source value of
\* NaN reads "N/A".
C6_NoneAndNaNAreNA ==
    SummaryShown =>
        /\ \A i \in SingleRows :
              Get(info, RowKey(i)).t \in {"None", "nan"} => summary_df[i].Value = <<NA>>
        /\ \A i \in RangeRows :
              (Get(info, LowKey(i)).t \in {"None", "nan"}
               \/ Get(info, HighKey(i)).t \in {"None", "nan"})
                  => summary_df[i].Value = <<NA>>

\* h * 10^k as a magnitude.
TimesPow10(h, k) ==
    IF k >= 6 THEN Big(h * Pow10[k - 6], 0)
    ELSE Big((h * Pow10[k]) \div Limb, (h * Pow10[k]) % Limb)

\* The text is mag / 10^e to two decimals: its hundredths h satisfy
\* |h * 10^(e-2) - mag| <= 10^(e-2) / 2.
IsQuotient(text, mag, e) ==
    /\ text.ip.hi = 0
    /\ BigGeq(BigAdd(mag, Half(e - 2)), TimesPow10(text.ip.lo * 100 + text.fp, e - 2))
    /\ BigGeq(BigAdd(TimesPow10(text.ip.lo * 100 + text.fp, e - 2), Half(e - 2)), mag)

InRange(mag, low, high) == BigGeq(mag, low) /\ ~BigGeq(mag, high)

\* What C7 asks of the Market Cap text of the number x.
SuffixRule(x, text) ==
    /\ text.kind = "fixed2"
    /\ text.pre = "$"
    /\ text.neg = x.neg
    /\ BigGeq(x.mag, Trillion) => text.suf = "T" /\ IsQuotient(text, x.mag, 12)
    /\ InRange(x.mag, Billion, Trillion) => text.suf = "B" /\ IsQuotient(text, x.mag, 9)
    /\ InRange(x.mag, Million, Billion) => text.suf = "M" /\ IsQuotient(text, x.mag, 6)
    /\ InRange(x.mag, Thousand, Million) => text.suf = "K" /\ IsQuotient(text, x.mag, 3)
    /\ ~BigGeq(x.mag, Thousand) => text.suf = "" /\ text.ip = x.mag /\ text.fp = 0

\* C7: for a number x, format_large_number picks the suffix of the largest
\* threshold |x| reaches, prints x over that threshold to two decimals, and
\* keeps the sign of x, negative x and the exact thresholds included.
C7_SuffixByMagnitudeSignKept ==
    (SummaryShown /\ info["marketCap"].t = "num") =>
        /\ Len(summary_df[7].Value) = 1
        /\ SuffixRule(info["marketCap"], summary_df[7].Value[1])

C7_Witness ==
    /\ SummaryShown
    /\ info["marketCap"] = Num(TRUE, Limb, 0)
    /\ summary_df[7].Value = <<Text("fixed2", "$", TRUE, Big(0, 1), 0, "T")>>

FirstNonEmpty(d, symbol) ==
    IF Truthy(Get(d, "shortName")) THEN d["shortName"]
    ELSE IF Truthy(Get(d, "longName")) THEN d["longName"]
    ELSE Str(symbol)

\* C8: the displayed company name is the first non-empty of shortName,
\* longName and the ticker symbol, and is never null or empty.
C8_NameIsFirstNonEmpty ==
    Shows(rendered, "header") =>
        /\ company_name = FirstNonEmpty(info, stock_symbol)
        /\ Truthy(company_name)

\* The daily returns that exist: the non-NaN elements of pct_change.
Observations(df) == Len(DropNaN(pct_change(df.Close)))

\* C9: an undefined statistic is shown as "N/A": volatility and mean daily
\* return of a one-row history, volatility with fewer than two daily returns,
\* total return when the first Close is 0.
C9_UndefinedStatisticsAreNA ==
    statistics # PyNone =>
        /\ Rows(hist_data) = 1 =>
              /\ statistics.volatility.text = "N/A"
              /\ statistics.avg_daily_return.text = "N/A"
        /\ Observations(hist_data) < 2 => statistics.volatility.text = "N/A"
        /\ hist_data.Close[1] = 0 => statistics.total_return.text = "N/A"

\* The places of the lines with the given tag, and of a section header.
Places(tag) == {i \in DOMAIN csv_data : csv_data[i].tag = tag}

PlaceOfText(title) ==
    {i \in Places("text") : csv_data[i].cells[1] = title}

\* The cell is the price p (thousandths) rounded to hundredths.
IsRounded(cell, p) == 10 * cell - p <= 5 /\ p - 10 * cell <= 5

\* C10: the export has the header lines, then SUMMARY METRICS, then
\* HISTORICAL DATA, and its history has one row per row of the fetched
\* series, in the same order, whatever the length; the series is unchanged.
C10_ExportHoldsTheWholeSeries ==
    csv_data # <<>> =>
        /\ csv_data[1].cells = <<"Stock Symbol: ", stock_symbol>>
        /\ csv_data[2].cells[1] = "Analysis Date: "
        /\ csv_data[3].cells = <<"Time Period: ", selected_period>>
        /\ \E a \in PlaceOfText("SUMMARY METRICS"), b \in PlaceOfText("HISTORICAL DATA") :
              /\ 3 < a
              /\ a < b
              /\ Places("summary_row") = (a + 2)..(a + 12)
              /\ Places("history_row") = (b + 2)..Len(csv_data)
              /\ Len(csv_data) - (b + 1) = Rows(yf.history)
              /\ \A j \in 1..Rows(yf.history) :
                    /\ csv_data[b + 1 + j].cells[1] = yf.history.index[j]
                    /\ IsRounded(csv_data[b + 1 + j].cells[2], yf.history.Open[j])
                    /\ IsRounded(csv_data[b + 1 + j].cells[3], yf.history.High[j])
                    /\ IsRounded(csv_data[b + 1 + j].cells[4], yf.history.Low[j])
                    /\ IsRounded(csv_data[b + 1 + j].cells[5], yf.history.Close[j])
                    /\ csv_data[b + 1 + j].cells[6] = yf.history.Volume[j]
        /\ hist_data = yf.history

C10_Witness ==
    /\ csv_data # <<>>
    /\ Rows(hist_data) > TailRows
    /\ Rows(recent_data) = TailRows
    /\ Cardinality(Places("history_row")) = Rows(hist_data)
====
